---- MODULE Spec2Model ----
(***************************************************************************)
(* Model of src/lab6.py, the Streamlit "Crime Unit Management System".     *)
(*                                                                         *)
(* The state is st.session_state (crimes, uploaded_files, officers), the   *)
(* wall clock and the widget state of the confirmation checkbox of the     *)
(* Settings tab.  Each action is one user interaction, i.e. one run of the *)
(* script with that widget triggered; out is what that run produced.       *)
(* The contents of the uploads/ directory are not part of the state: they  *)
(* are read back only to render download buttons (lines 249-260).  A       *)
(* failing write is modelled by the exception it raises in add_crime.      *)
(*                                                                         *)
(* Python strings are sequences of one-character strings, so that strip(), *)
(* len(), upper(), str.contains() and the f-strings are computed as the    *)
(* code computes them.                                                     *)
(***************************************************************************)
EXTENDS Integers, Sequences, FiniteSets, TLC

VARIABLES crimes, uploaded_files, officers, clock, confirm, out

vars == <<crimes, uploaded_files, officers, clock, confirm, out>>

(***************************************************************************)
(* Bounds of the model.                                                    *)
(***************************************************************************)
\* most records registered in one session
MaxCrimes == 2
\* last day (of the month the session runs in) the clock reaches
MaxClock == 2
\* longest location handed to validate_form_data on its own
MaxLocLen == 3
\* most spaces before, and after, a description handed to validate_form_data
MaxPad == 1
\* longest run of letters in such a description (two runs make one)
MaxRun == 6

(***************************************************************************)
(* Module-level constants of the program.                                  *)
(***************************************************************************)
CRIME_TYPES == << <<"T","h","e","f","t">>, <<"M","u","r","d","e","r">>, <<"A","s","s","a","u","l","t">>, <<"C","y","b","e","r","c","r","i","m","e">>, <<"F","r","a","u","d">>,
                  <<"B","u","r","g","l","a","r","y">>, <<"D","r","u","g"," ","O","f","f","e","n","s","e">>, <<"V","a","n","d","a","l","i","s","m">>,
                  <<"D","o","m","e","s","t","i","c"," ","V","i","o","l","e","n","c","e">>, <<"O","t","h","e","r">> >>

STATUSES == << <<"O","p","e","n">>, <<"U","n","d","e","r"," ","I","n","v","e","s","t","i","g","a","t","i","o","n">>, <<"C","l","o","s","e","d">>, <<"C","o","l","d"," ","C","a","s","e">>,
               <<"P","e","n","d","i","n","g"," ","R","e","v","i","e","w">> >>

PRIORITIES == << <<"L","o","w">>, <<"M","e","d","i","u","m">>, <<"H","i","g","h">>, <<"C","r","i","t","i","c","a","l">> >>

DefaultOfficers == << <<"O","f","f","i","c","e","r"," ","S","m","i","t","h">>, <<"O","f","f","i","c","e","r"," ","J","o","h","n","s","o","n">>, <<"O","f","f","i","c","e","r"," ","B","r","o","w","n">>,
                      <<"O","f","f","i","c","e","r"," ","D","a","v","i","s">>, <<"O","f","f","i","c","e","r"," ","W","i","l","s","o","n">> >>

\* the keys of crime_record, in the order the dict literal gives them
RecordKeys == <<"ID", "Type", "Location", "Officer", "Status", "Priority",
                "Description", "Notes", "Date_Registered", "Incident_Date",
                "Files">>

(***************************************************************************)
(* Python string primitives.                                               *)
(***************************************************************************)
Range(s) == { s[i] : i \in DOMAIN s }

Whitespace == {" ", "\n", "\t"}

Uppers == <<"A","B","C","D","E","F","G","H","I","J","K","L","M","N","O","P","Q","R","S","T","U","V","W","X","Y","Z">>
Lowers == <<"a","b","c","d","e","f","g","h","i","j","k","l","m","n","o","p","q","r","s","t","u","v","w","x","y","z">>
Digits == <<"0","1","2","3","4","5","6","7","8","9">>

\* the letters that str.lower() and str.upper() change
UpperCase == Range(Uppers)
LowerCase == Range(Lowers)
LowerOf == [c \in Range(Uppers) |-> Lowers[CHOOSE i \in DOMAIN Uppers : Uppers[i] = c]]
UpperOf == [c \in Range(Lowers) |-> Uppers[CHOOSE i \in DOMAIN Lowers : Lowers[i] = c]]

\* str.lower() of one character
Lower(c) == IF c \in UpperCase THEN LowerOf[c] ELSE c

\* str.upper() of one character
Upper(c) == IF c \in LowerCase THEN UpperOf[c] ELSE c

\* s.upper()
UpperStr(s) == [i \in DOMAIN s |-> Upper(s[i])]

\* s.strip(): s without its leading and trailing whitespace
Strip(s) ==
    LET keep == { i \in DOMAIN s : s[i] \notin Whitespace }
    IN  IF keep = {} THEN << >>
        ELSE LET lo == CHOOSE i \in keep : \A j \in keep : i <= j
                 hi == CHOOSE i \in keep : \A j \in keep : j <= i
             IN  SubSeq(s, lo, hi)

\* str(n) for 0 <= n <= 99
IntStr(n) == IF n < 10 THEN << Digits[n + 1] >>
             ELSE << Digits[(n \div 10) + 1], Digits[(n % 10) + 1] >>

\* n printed on two digits (%d of strftime)
TwoDigits(n) == << Digits[(n \div 10) + 1], Digits[(n % 10) + 1] >>

\* int() of a string of digits
RECURSIVE ParseInt(_)
ParseInt(s) ==
    IF s = << >> THEN 0
    ELSE LET d == CHOOSE i \in DOMAIN Digits : Digits[i] = s[Len(s)]
         IN  10 * ParseInt(SubSeq(s, 1, Len(s) - 1)) + (d - 1)

(***************************************************************************)
(* Dates.  The session runs within January 2026; a date is its day of the  *)
(* month.                                                                  *)
(***************************************************************************)
\* d.strftime("%Y-%m-%d")
StrfDate(d) == <<"2","0","2","6","-","0","1","-">> \o TwoDigits(d)

\* d.strftime("%Y%m%d")
StrfCompact(d) == <<"2","0","2","6","0","1">> \o TwoDigits(d)

\* datetime.now().strftime("%Y-%m-%d %H:%M:%S"), the clock read at midnight
StrfDateTime(d) == StrfDate(d) \o <<" ","0","0",":","0","0",":","0","0">>

\* datetime.now().isoformat()
IsoFormat(d) == StrfDate(d) \o <<"T","0","0",":","0","0",":","0","0">>

\* pd.to_datetime of a "%Y-%m-%d" string, as the day of the month
ToDatetime(s) == ParseInt(SubSeq(s, 9, 10))

(***************************************************************************)
(* generate_crime_id and validate_form_data.                               *)
(***************************************************************************)
\* the first six characters of str(uuid.uuid4()) that the model draws from
Uuid4Inputs == { <<"a","3","f","0","c","1">>, <<"0","7","b","d","2","e">> }

generate_crime_id(now, uuid) ==
    <<"C","A","S","E","-">> \o StrfCompact(now) \o <<"-">> \o UpperStr(SubSeq(uuid, 1, 6))

ErrCrimeType == "Crime type is required"
ErrLocation == "Location must be at least 2 characters long"
ErrOfficer == "Officer assignment is required"
ErrDescription == "Description must be at least 10 characters long"

\* the rules chained with elif: the first violated rule ends the checks
validate_elif(crime_type, location, officer, description) ==
    IF crime_type = << >> THEN << ErrCrimeType >>
    ELSE IF location = << >> \/ Len(Strip(location)) < 2 THEN << ErrLocation >>
    ELSE IF officer = << >> THEN << ErrOfficer >>
    ELSE IF description = << >> \/ Len(Strip(description)) < 10
    THEN << ErrDescription >>
    ELSE << >>

validate_form_data(crime_type, location, officer, description) ==
    LET e1 == IF crime_type = << >> THEN << ErrCrimeType >> ELSE << >>
        e2 == IF location = << >> \/ Len(Strip(location)) < 2
              THEN << ErrLocation >> ELSE << >>
        e3 == IF officer = << >> THEN << ErrOfficer >> ELSE << >>
        e4 == IF description = << >> \/ Len(Strip(description)) < 10
              THEN << ErrDescription >> ELSE << >>
    IN  e1 \o e2 \o e3 \o e4

(***************************************************************************)
(* The inputs the user can type or select.                                 *)
(***************************************************************************)
NoValue == "None"

\* names typed into "Add New Officer"
NameInputs == { << >>, <<"O","f","f","i","c","e","r"," ","S","m","i","t","h">>, <<"o","f","f","i","c","e","r"," ","s","m","i","t","h">> }

\* the widgets of crime_form, as submitted: the select boxes give a member
\* of their list, the text inputs any text
FormInputs ==
    { [crime_type |-> CRIME_TYPES[1], location |-> <<"5","t","h"," ","A","v","e">>, priority |-> PRIORITIES[2],
       officer |-> DefaultOfficers[1], status |-> STATUSES[1], incident_date |-> 1,
       description |-> <<"S","t","o","l","e","n"," ","b","i","c","y","c","l","e"," ","f","r","o","m"," ","p","o","r","c","h">>, notes |-> << >>,
       file_upload |-> << >>],
      [crime_type |-> CRIME_TYPES[5], location |-> <<" ","a","b"," ">>, priority |-> PRIORITIES[3],
       officer |-> <<"o","f","f","i","c","e","r"," ","s","m","i","t","h">>, status |-> STATUSES[3], incident_date |-> 2,
       description |-> <<"W","i","r","e"," ","f","r","a","u","d","\n","r","e","p","o","r","t","e","d">>, notes |-> <<"c","a","l","l"," ","b","a","n","k">>,
       file_upload |-> << <<"a",".","p","d","f">>, <<"b",".","t","x","t">> >>],
      [crime_type |-> CRIME_TYPES[1], location |-> <<"5","t","h"," ","A","v","e">>, priority |-> PRIORITIES[2],
       officer |-> DefaultOfficers[1], status |-> STATUSES[1], incident_date |-> 1,
       description |-> <<"s","h","o","r","t">>, notes |-> << >>,
       file_upload |-> << <<"a",".","p","d","f">> >>],
      [crime_type |-> CRIME_TYPES[5], location |-> <<" ","a"," ">>, priority |-> PRIORITIES[1],
       officer |-> DefaultOfficers[2], status |-> STATUSES[3], incident_date |-> 2,
       description |-> <<" ","9"," ","l","e","t","t","e","r","s"," ","\n">>, notes |-> <<"n">>,
       file_upload |-> << >>] }

(***************************************************************************)
(* initialize_session_state                                                *)
(***************************************************************************)
EmptyIndex == [k \in {} |-> << >>]

Init ==
    /\ crimes = << >>
    /\ uploaded_files = EmptyIndex
    /\ officers = DefaultOfficers
    /\ clock = 1
    /\ confirm = "none"
    /\ out = [kind |-> "start"]

(***************************************************************************)
(* Sidebar: Officer Management.                                            *)
(***************************************************************************)
\* the append without the membership test of line 76
AddedUnchecked(list, new_officer) == Append(list, new_officer)

AddedOfficers(list, new_officer) ==
    IF new_officer \notin Range(list) THEN Append(list, new_officer) ELSE list

\* line 75: the button acts only when the text input is not empty
AddOfficer(new_officer) ==
    /\ officers' = IF new_officer # << >>
                   THEN AddedOfficers(officers, new_officer)
                   ELSE officers
    /\ out' = [kind |-> "add_officer", name |-> new_officer,
               added |-> new_officer # << >> /\ new_officer \notin Range(officers)]
    /\ confirm' = "none"
    /\ UNCHANGED <<crimes, uploaded_files, clock>>

(***************************************************************************)
(* add_crime: the submit of crime_form.                                    *)
(***************************************************************************)
FileName(crime_id, name) == <<"u","p","l","o","a","d","s","/">> \o crime_id \o <<"_">> \o name

\* lines 116-124: the references of the files written
StoredFiles(crime_id, file_upload) ==
    [i \in DOMAIN file_upload |-> FileName(crime_id, file_upload[i])]

\* line 124: st.session_state.uploaded_files[crime_id] = uploaded_files
IndexPut(index, crime_id, refs) ==
    [k \in DOMAIN index \cup {crime_id} |->
        IF k = crime_id THEN refs ELSE index[k]]

\* lines 126-138
crime_record(crime_id, form, n_files, now) ==
    [ID |-> crime_id,
     Type |-> form.crime_type,
     Location |-> form.location,
     Officer |-> form.officer,
     Status |-> form.status,
     Priority |-> form.priority,
     Description |-> form.description,
     Notes |-> form.notes,
     Date_Registered |-> StrfDateTime(now),
     Incident_Date |-> StrfDate(form.incident_date),
     Files |-> n_files]

\* insert(0, crime_record) in place of append
Prepended(list, record) == << record >> \o list

\* line 140: st.session_state.crimes.append(crime_record)
Appended(list, record) == Append(list, record)

\* the record stored before the errors are looked at
SubmittedUnvalidated(form, fail, errors, crime_id) ==
    /\ uploaded_files' =
         IF form.file_upload # << >>
         THEN IndexPut(uploaded_files, crime_id,
                       StoredFiles(crime_id, form.file_upload))
         ELSE uploaded_files
    /\ crimes' = Appended(crimes,
           crime_record(crime_id, form, Len(form.file_upload), clock))
    /\ out' = [kind |-> "submit", errors |-> errors,
               id |-> IF errors # << >> THEN NoValue ELSE crime_id,
               raised |-> FALSE]

\* lines 111-141, given the errors of line 110 and the id of line 115.
\* fail = 0: every write succeeds; fail = j: makedirs, open or write raises
\* while file j is stored, and the exception ends the run at that line
Submitted(form, fail, errors, crime_id) ==
    IF errors # << >>
    THEN /\ out' = [kind |-> "submit", errors |-> errors,
                    id |-> NoValue, raised |-> FALSE]
         /\ UNCHANGED <<crimes, uploaded_files>>
    ELSE IF fail # 0
    THEN /\ out' = [kind |-> "submit", errors |-> errors,
                    id |-> crime_id, raised |-> TRUE]
         /\ UNCHANGED <<crimes, uploaded_files>>
    ELSE /\ uploaded_files' =
              IF form.file_upload # << >>
              THEN IndexPut(uploaded_files, crime_id,
                            StoredFiles(crime_id, form.file_upload))
              ELSE uploaded_files
         /\ crimes' = Appended(crimes,
                crime_record(crime_id, form, Len(form.file_upload), clock))
         /\ out' = [kind |-> "submit", errors |-> errors,
                    id |-> crime_id, raised |-> FALSE]

\* lines 109-141: the run triggered by "Submit Case"
SubmitCase(form, uuid, fail) ==
    /\ form.officer \in Range(officers)
    /\ Len(crimes) < MaxCrimes
    /\ Submitted(form, fail,
                 validate_form_data(form.crime_type, form.location,
                                    form.officer, form.description),
                 generate_crime_id(clock, uuid))
    /\ confirm' = "none"
    /\ UNCHANGED <<officers, clock>>

(***************************************************************************)
(* view_crimes: the filters, then the CSV of what they keep.               *)
(***************************************************************************)
\* one Series.str.contains(pat, case=False): re.search of the pattern in the
\* text under re.IGNORECASE; the patterns drawn are literals and ".", which
\* matches any character but a newline
PatMatchesAt(text, pat, at) ==
    \A j \in DOMAIN pat :
        LET c == text[at + j - 1]
        IN  IF pat[j] = "." THEN c # "\n" ELSE Lower(c) = Lower(pat[j])

Contains(text, pat) ==
    \E at \in 1 .. (Len(text) - Len(pat) + 1) : PatMatchesAt(text, pat, at)

\* DataFrame.astype(str): the string of column k of a row
AsStr(row, k) == IF k = "Files" THEN IntStr(row[k]) ELSE row[k]

\* line 189: the mask of one row
SearchMask(row, search_text) ==
    \E k \in DOMAIN row : Contains(AsStr(row, k), search_text)

\* filtered_df[mask]: the index labels of filtered_df at which the mask, a
\* boolean per index label, holds, in their order
Keep(index, mask) == SelectSeq(index, LAMBDA i : mask[i])

\* the filter widgets, as set by the user: the multiselects give members of
\* their lists, the date input no date, a start date, or a start and an end
FilterInputs ==
    LET none == [search_text |-> << >>, crime_type_filter |-> {},
                 status_filter |-> {}, priority_filter |-> {},
                 officer_filter |-> {}, date_range |-> << >>]
    IN  { none,
          [none EXCEPT !.status_filter = { STATUSES[1] }],
          [none EXCEPT !.status_filter = { STATUSES[1], STATUSES[3] }],
          [none EXCEPT !.crime_type_filter = { CRIME_TYPES[5] }],
          [none EXCEPT !.priority_filter = { PRIORITIES[2], PRIORITIES[1] }],
          [none EXCEPT !.officer_filter = { <<"o","f","f","i","c","e","r"," ","s","m","i","t","h">> }],
          [none EXCEPT !.date_range = << 2 >>],
          [none EXCEPT !.date_range = << 1, 1 >>],
          [none EXCEPT !.search_text = <<"O","P","E","N">>],
          [none EXCEPT !.search_text = <<"f",".",".","u","d">>],
          [none EXCEPT !.search_text = <<"a","3","F","0">>, !.date_range = << 1, 2 >>,
                       !.status_filter = { STATUSES[3] }],
          [none EXCEPT !.crime_type_filter = { CRIME_TYPES[1] },
                       !.status_filter = { STATUSES[1] },
                       !.officer_filter = { DefaultOfficers[1] },
                       !.search_text = <<"2","e">>] }

\* .isin(list): the mask of a column against a multiselect
IsIn(df, column, values) == [i \in DOMAIN df |-> df[i][column] \in values]

\* lines 207-210: the mask of the date range
InDates(df, start_date, end_date) ==
    [i \in DOMAIN df |-> /\ ToDatetime(df[i].Incident_Date) >= start_date
                         /\ ToDatetime(df[i].Incident_Date) <= end_date]

\* lines 189: the mask of the search text
InSearch(df, search_text) ==
    [i \in DOMAIN df |-> SearchMask(df[i], search_text)]

\* the filters applied whether or not the user selected anything
FilteredUnguarded(df, f) ==
    LET i0 == [i \in DOMAIN df |-> i]
        i1 == IF f.search_text # << >>
              THEN Keep(i0, InSearch(df, f.search_text)) ELSE i0
        i2 == Keep(i1, IsIn(df, "Type", f.crime_type_filter))
        i3 == Keep(i2, IsIn(df, "Status", f.status_filter))
        i4 == Keep(i3, IsIn(df, "Priority", f.priority_filter))
        i5 == Keep(i4, IsIn(df, "Officer", f.officer_filter))
        i6 == IF f.date_range # << >> /\ Len(f.date_range) = 2
              THEN Keep(i5, InDates(df, f.date_range[1], f.date_range[2]))
              ELSE i5
    IN  i6

\* lines 186-210: the index labels of filtered_df
Filtered(df, f) ==
    LET i0 == [i \in DOMAIN df |-> i]
        i1 == IF f.search_text # << >>
              THEN Keep(i0, InSearch(df, f.search_text)) ELSE i0
        i2 == IF f.crime_type_filter # {}
              THEN Keep(i1, IsIn(df, "Type", f.crime_type_filter)) ELSE i1
        i3 == IF f.status_filter # {}
              THEN Keep(i2, IsIn(df, "Status", f.status_filter)) ELSE i2
        i4 == IF f.priority_filter # {}
              THEN Keep(i3, IsIn(df, "Priority", f.priority_filter)) ELSE i3
        i5 == IF f.officer_filter # {}
              THEN Keep(i4, IsIn(df, "Officer", f.officer_filter)) ELSE i4
        i6 == IF f.date_range # << >> /\ Len(f.date_range) = 2
              THEN Keep(i5, InDates(df, f.date_range[1], f.date_range[2]))
              ELSE i5
    IN  i6

\* line 54: df.drop(columns=["File"], errors='ignore')
Drop(columns, name) == SelectSeq(columns, LAMBDA c : c # name)

\* the number of line breaks in a string
Newlines(s) == Cardinality({ i \in DOMAIN s : s[i] = "\n" })

\* lines 51-55: the header and the cells of the rows of df.to_csv(index=False)
export_to_csv(data) ==
    LET columns == IF data # << >> THEN Drop(RecordKeys, "File") ELSE << >>
    IN  [header |-> columns,
         rows |-> [i \in DOMAIN data |->
                     [j \in DOMAIN columns |-> AsStr(data[i], columns[j])]]]

\* the lines of the text of a CSV: the header's, and for each row one more
\* than the line breaks inside its (quoted) cells
RECURSIVE CsvRowLines(_)
CsvRowLines(rows) ==
    IF rows = << >> THEN 0
    ELSE LET r == Head(rows)
             RECURSIVE InCells(_)
             InCells(j) == IF j > Len(r) THEN 0
                           ELSE Newlines(r[j]) + InCells(j + 1)
         IN  1 + InCells(1) + CsvRowLines(Tail(rows))

CsvLines(csv) == 1 + CsvRowLines(csv.rows)

\* lines 212-221: what the run shows of filtered_df, given its index labels.
\* (After line 206 the Incident_Date column holds timestamps, which to_csv
\* prints as the same "%Y-%m-%d" text.)
Shown(df, f, index) ==
    [kind |-> "view", filters |-> f, index |-> index,
     csv |-> IF index # << >>
             THEN export_to_csv([i \in DOMAIN index |-> df[index[i]]])
             ELSE NoValue]

ViewCrimes(f) ==
    /\ f.officer_filter \subseteq Range(officers)
    /\ out' = IF crimes = << >>
              THEN [kind |-> "view", filters |-> f, index |-> << >>,
                    csv |-> NoValue]
              ELSE Shown(crimes, f, Filtered(crimes, f))
    /\ confirm' = "none"
    /\ UNCHANGED <<crimes, uploaded_files, officers, clock>>

(***************************************************************************)
(* crime_statistics: the four metrics of the dashboard.                    *)
(***************************************************************************)
\* len(df[df[column] == value])
CountEq(df, column, value) ==
    Cardinality({ i \in DOMAIN df : df[i][column] = value })

CrimeStatistics ==
    /\ out' = IF crimes = << >>
              THEN [kind |-> "stats", total |-> 0]
              ELSE [kind |-> "stats", total |-> Len(crimes),
                    open_cases |-> CountEq(crimes, "Status", <<"O","p","e","n">>),
                    high_priority |-> CountEq(crimes, "Priority", <<"H","i","g","h">>),
                    officers_with_cases |->
                        Cardinality({ crimes[i].Officer : i \in DOMAIN crimes })]
    /\ confirm' = "none"
    /\ UNCHANGED <<crimes, uploaded_files, officers, clock>>

(***************************************************************************)
(* Settings tab: Clear All Data and Backup Data.                           *)
(*                                                                         *)
(* st.button is True only in the run its click triggers.  The checkbox is  *)
(* created inside that branch, so it is on the page only after such a run, *)
(* and its widget state is dropped by any run that does not create it.     *)
(* confirm is that widget state: "none" (not on the page), "off" or "on".  *)
(***************************************************************************)
\* lines 359-364, in the run triggered by a click of the button
ClearAllData ==
    LET checked == (confirm = "on")
    IN  IF checked
        THEN /\ crimes' = << >>
             /\ uploaded_files' = EmptyIndex
             /\ out' = [kind |-> "clear", cleared |-> TRUE]
             \* st.rerun(): the next run has no button click
             /\ confirm' = "none"
             /\ UNCHANGED <<officers, clock>>
        ELSE /\ out' = [kind |-> "clear", cleared |-> FALSE]
             /\ confirm' = IF confirm = "none" THEN "off" ELSE confirm
             /\ UNCHANGED <<crimes, uploaded_files, officers, clock>>

\* the user ticks the checkbox: a run with the checkbox "on" and no button
\* click, in which line 359 is False and line 360 is not reached
TickConfirm ==
    /\ confirm = "off"
    /\ out' = [kind |-> "tick", cleared |-> FALSE]
    /\ confirm' = "none"
    /\ UNCHANGED <<crimes, uploaded_files, officers, clock>>

\* the dict built with other keys
backup_renamed(records, names, now) ==
    [records |-> records, officers |-> names, exportDate |-> IsoFormat(now)]

\* lines 368-372
backup_data(records, names, now) ==
    [crimes |-> records, officers |-> names, export_date |-> IsoFormat(now)]

\* lines 367-379: the download offered while there are records
BackupData ==
    /\ crimes # << >>
    /\ out' = [kind |-> "backup", doc |-> backup_data(crimes, officers, clock)]
    /\ confirm' = "none"
    /\ UNCHANGED <<crimes, uploaded_files, officers, clock>>

(***************************************************************************)
(* Time passes between two interactions.                                   *)
(***************************************************************************)
Tick ==
    /\ clock < MaxClock
    /\ clock' = clock + 1
    /\ UNCHANGED <<crimes, uploaded_files, officers, confirm, out>>

Next ==
    \/ \E n \in NameInputs : AddOfficer(n)
    \/ \E form \in FormInputs, uuid \in Uuid4Inputs :
          \E fail \in 0 .. Len(form.file_upload) : SubmitCase(form, uuid, fail)
    \/ \E f \in FilterInputs : ViewCrimes(f)
    \/ CrimeStatistics
    \/ ClearAllData
    \/ TickConfirm
    \/ BackupData
    \/ Tick

Spec == Init /\ [][Next]_vars

(***************************************************************************)
(* validate_form_data on its own: the arguments are drawn at the start     *)
(* and one step applies the function to them.                              *)
(***************************************************************************)
RECURSIVE Repeat(_, _)
Repeat(c, n) == IF n = 0 THEN << >> ELSE << c >> \o Repeat(c, n - 1)

\* every string of spaces and letters of at most n characters
RECURSIVE Strings(_)
Strings(n) ==
    IF n = 0 THEN { << >> }
    ELSE LET shorter == Strings(n - 1)
         IN  shorter \cup { << c >> \o t : c \in {" ", "a"},
                                           t \in { u \in shorter : Len(u) = n - 1 } }

LocationArgs == Strings(MaxLocLen)

\* spaces, letters, at most one space, letters, spaces
DescriptionArgs ==
    { Repeat(" ", l) \o Repeat("x", a) \o Repeat(" ", m) \o Repeat("x", b)
          \o Repeat(" ", r) :
      l \in 0 .. MaxPad, a \in 0 .. MaxRun, m \in 0 .. 1, b \in 0 .. MaxRun,
      r \in 0 .. MaxPad }

InitValidate ==
    /\ crimes = << >>
    /\ uploaded_files = EmptyIndex
    /\ officers = DefaultOfficers
    /\ clock = 1
    /\ confirm = "none"
    /\ \E crime_type \in { << >>, CRIME_TYPES[1] }, location \in LocationArgs,
          officer \in { << >>, DefaultOfficers[1] },
          description \in DescriptionArgs :
          out = [kind |-> "args", crime_type |-> crime_type,
                 location |-> location, officer |-> officer,
                 description |-> description]

Validate ==
    /\ out.kind = "args"
    /\ out' = [out EXCEPT !.kind = "validated"] @@
              [errors |-> validate_form_data(out.crime_type, out.location,
                                             out.officer, out.description)]
    /\ UNCHANGED <<crimes, uploaded_files, officers, clock, confirm>>

SpecValidate == InitValidate /\ [][Validate]_vars

(***************************************************************************)
(* Properties.                                                             *)
(***************************************************************************)
\* the step is a run of add_crime's submit
IsSubmit ==
    \E form \in FormInputs, uuid \in Uuid4Inputs :
        \E fail \in 0 .. Len(form.file_upload) : SubmitCase(form, uuid, fail)

\* C1: a submit whose fields fail validation changes neither the record
\* list, nor the attachment index, nor the officer list, and generates no id.
C1_InvalidSubmitMutatesNothing ==
    [][(IsSubmit /\ out'.errors # << >>) =>
          /\ crimes' = crimes
          /\ uploaded_files' = uploaded_files
          /\ officers' = officers
          /\ out'.id = NoValue]_vars

\* a rejected submit (with a file attached) on a store that holds a record
C1_Witness ==
    /\ out.kind = "submit"
    /\ out.errors = << ErrDescription >>
    /\ Len(crimes) >= 1

IsDigit(c) == \E i \in DOMAIN Digits : Digits[i] = c

\* CASE-<8-digit date>-<6 uppercase alphanumerics>
IdFormat(id) ==
    /\ Len(id) = 20
    /\ SubSeq(id, 1, 5) = <<"C","A","S","E","-">>
    /\ \A i \in 6 .. 13 : IsDigit(id[i])
    /\ id[14] = "-"
    /\ \A i \in 15 .. 20 : IsDigit(id[i]) \/ id[i] \in UpperCase

\* C2: no two records of the store have the same ID, and every ID has the
\* form CASE-<8-digit date>-<6 uppercase alphanumerics>.
C2_IdsUnique ==
    /\ \A i, j \in DOMAIN crimes : i # j => crimes[i].ID # crimes[j].ID
    /\ \A i \in DOMAIN crimes : IdFormat(crimes[i].ID)

\* C3: once the user has performed the Clear All Data action (the click of
\* the button, then the tick of the confirmation it asks for), the record
\* list and the attachment index are empty.
C3_ClearEmpties ==
    out.kind = "tick" =>
        /\ crimes = << >>
        /\ uploaded_files = EmptyIndex

\* s without its leading and trailing whitespace, one character at a time
RECURSIVE Trimmed(_)
Trimmed(s) ==
    IF s = << >> THEN s
    ELSE IF Head(s) \in Whitespace THEN Trimmed(Tail(s))
    ELSE IF s[Len(s)] \in Whitespace THEN Trimmed(SubSeq(s, 1, Len(s) - 1))
    ELSE s

\* the message of each rule the arguments violate, in the order of the rules
RuleMessages(a) ==
    << IF a.crime_type = << >> THEN ErrCrimeType ELSE NoValue,
       IF a.location = << >> \/ Len(Trimmed(a.location)) < 2
       THEN ErrLocation ELSE NoValue,
       IF a.officer = << >> THEN ErrOfficer ELSE NoValue,
       IF a.description = << >> \/ Len(Trimmed(a.description)) < 10
       THEN ErrDescription ELSE NoValue >>

\* C4: validate_form_data returns exactly one message per violated rule
\* (crime_type non-empty; location trimmed length >= 2; officer non-empty;
\* description trimmed length >= 10), each rule checked whatever the others
\* give: one violated rule yields that rule's message alone, none yields the
\* empty list.
C4_OneMessagePerViolatedRule ==
    out.kind = "validated" =>
        out.errors = SelectSeq(RuleMessages(out), LAMBDA m : m # NoValue)

\* the description alone is wrong: 9 letters between two spaces
C4_Witness ==
    /\ out.kind = "validated"
    /\ out.crime_type # << >>
    /\ out.officer # << >>
    /\ Len(Trimmed(out.location)) = 2
    /\ Len(out.description) = 11
    /\ Len(Trimmed(out.description)) = 9
    /\ out.errors = << ErrDescription >>

\* a record satisfies every filter that is supplied
Satisfies(r, f) ==
    /\ f.search_text # << >> => SearchMask(r, f.search_text)
    /\ f.crime_type_filter # {} => r.Type \in f.crime_type_filter
    /\ f.status_filter # {} => r.Status \in f.status_filter
    /\ f.priority_filter # {} => r.Priority \in f.priority_filter
    /\ f.officer_filter # {} => r.Officer \in f.officer_filter
    /\ Len(f.date_range) = 2 =>
          r.Incident_Date \in
              { StrfDate(d) : d \in f.date_range[1] .. f.date_range[2] }

NoFilter(f) ==
    /\ f.search_text = << >>
    /\ f.crime_type_filter = {}
    /\ f.priority_filter = {}
    /\ f.officer_filter = {}
    /\ f.date_range = << >>

\* C5: the query of view_crimes returns the records that satisfy every
\* supplied filter, each once, in the order of the record list; with no
\* filter it returns the whole list, and with the status filter {Open} alone
\* the records whose Status is Open and no other.
C5_QueryIsFilteredSubsequence ==
    out.kind = "view" =>
        /\ \A i \in DOMAIN crimes :
              (i \in Range(out.index)) <=> Satisfies(crimes[i], out.filters)
        /\ \A i, j \in DOMAIN out.index : i < j => out.index[i] < out.index[j]
        /\ Range(out.index) \subseteq DOMAIN crimes
        /\ (NoFilter(out.filters) /\ out.filters.status_filter = {}) =>
              out.index = [i \in DOMAIN crimes |-> i]
        /\ (NoFilter(out.filters) /\ out.filters.status_filter = { <<"O","p","e","n">> }) =>
              Range(out.index) = { i \in DOMAIN crimes : crimes[i].Status = <<"O","p","e","n">> }

\* the status filter {Open} on a store with an open and a closed record
C5_Witness ==
    /\ out.kind = "view"
    /\ NoFilter(out.filters)
    /\ out.filters.status_filter = { <<"O","p","e","n">> }
    /\ Len(crimes) = 2
    /\ Len(out.index) = 1

\* C6: the CSV of N records has N+1 lines, and its header has no "Files"
\* column.
C6_CsvLinesAndColumns ==
    (out.kind = "view" /\ out.index # << >>) =>
        /\ CsvLines(out.csv) = Len(out.index) + 1
        /\ "Files" \notin Range(out.csv.header)

IsTimestamp(s) == \E d \in 1 .. MaxClock : s = IsoFormat(d)

\* C7 (as amended): the JSON backup has exactly the keys crimes, officers
\* and export_date; crimes is the record list in store order, officers the
\* officer list, export_date a timestamp string; producing it changes
\* neither list.
C7_BackupSnapshot ==
    /\ [](out.kind = "backup" =>
            /\ DOMAIN out.doc = {"crimes", "officers", "export_date"}
            /\ out.doc.crimes = crimes
            /\ out.doc.officers = officers
            /\ IsTimestamp(out.doc.export_date))
    /\ [][BackupData => (crimes' = crimes /\ officers' = officers)]_vars

\* a backup of a store that holds two records and an added officer
C7_Witness ==
    /\ out.kind = "backup"
    /\ Len(out.doc.crimes) = 2
    /\ Len(out.doc.officers) = 6

\* C7 (as stated): the keys of the JSON backup are exactly records, officers
\* and exportDate.
C7_KeysAsStated ==
    out.kind = "backup" => DOMAIN out.doc = {"records", "officers", "exportDate"}

\* C8: the officer list never holds a name twice and always starts with the
\* five seeded names in their order; adding a name that is present leaves the
\* list unchanged, adding a new name appends it, and nothing else changes
\* the list.
C8_OfficersGrowOnly ==
    /\ [](/\ \A i, j \in DOMAIN officers : i # j => officers[i] # officers[j]
          /\ SubSeq(officers, 1, 5) = DefaultOfficers)
    /\ [][\A n \in NameInputs \ { << >> } :
            AddOfficer(n) =>
                officers' = IF n \in Range(officers) THEN officers
                            ELSE officers \o << n >>]_vars
    /\ [][officers' # officers => \E n \in NameInputs : AddOfficer(n)]_vars

\* a name differing only in case was appended, and adding it again was refused
C8_Witness ==
    /\ officers = DefaultOfficers \o << <<"o","f","f","i","c","e","r"," ","s","m","i","t","h">> >>
    /\ out.kind = "add_officer"
    /\ out.name = <<"o","f","f","i","c","e","r"," ","s","m","i","t","h">>
    /\ ~out.added
    /\ crimes # << >>

\* C9: a registration during which the write of an attached file fails
\* leaves the record list unchanged, and the attachment index has no entry
\* for the id generated in that attempt.
C9_FailedWriteLeavesNoEntry ==
    [][(IsSubmit /\ out'.raised) =>
          /\ crimes' = crimes
          /\ out'.id \notin DOMAIN uploaded_files']_vars

\* C10: a successful registration appends exactly one record and leaves
\* the earlier ones in place; no other run changes the record list, but a
\* clear, which empties it.
C10_AppendOnly ==
    /\ [][(IsSubmit /\ out'.errors = << >> /\ ~out'.raised) =>
            /\ Len(crimes') = Len(crimes) + 1
            /\ SubSeq(crimes', 1, Len(crimes)) = crimes
            /\ crimes'[Len(crimes')].ID = out'.id]_vars
    /\ [][crimes' # crimes =>
            \/ IsSubmit /\ out'.errors = << >> /\ ~out'.raised
            \/ ClearAllData /\ crimes' = << >>]_vars

\* a second record was appended behind the first
C10_Witness ==
    /\ out.kind = "submit"
    /\ out.errors = << >>
    /\ ~out.raised
    /\ Len(crimes) = 2
    /\ crimes[2].ID = out.id
    /\ crimes[1] # crimes[2]

====
